---- MODULE Spec2Model ----
(***************************************************************************)
(* A model of bacta's CIGAR/MD scoring engine (bacta/cigar_scorer.py) and  *)
(* of its benchmark statistics (bacta/benchmark_utils.py).                  *)
(*                                                                         *)
(* Strings are sequences of one-character strings.  Every operation is an  *)
(* action that records the call in op, its input in arg and its return     *)
(* value in ret; the CigarScorer instances' state is cig_warned, and        *)
(* warn_log holds the codes each instance handed to logger.warn.           *)
(***************************************************************************)
EXTENDS Integers, Sequences, FiniteSets, TLC

VARIABLES
    op,          \* the operation that ran last ("init" before any)
    arg,         \* its input
    ret,         \* its return value (<<>> when it raised)
    raised,      \* the exception it raised, "none" when it returned
    counts,      \* the ThresholdCounts mapping the table was built from
    cig_warned,  \* self.cig_warned of every CigarScorer instance
    warn_log,    \* the codes each instance passed to self.logger.warn, in order
    seen         \* history: the unknown codes each instance met since __init__

vars == <<op, arg, ret, raised, counts, cig_warned, warn_log, seen>>

\* ------------------------------------------------------------------ bounds

MaxLen == 4          \* raw character strings have at most this many characters
MaxTokens == 2       \* token-built strings have at most this many tokens
MaxOps == 2          \* operation lists over every code 0..9
MaxClipOps == 3      \* operation lists over the clip-related codes
MaxScorerOps == 2    \* operation lists scored on the long-lived instances
MaxThreshold == 2    \* thresholds are 0..MaxThreshold

\* ------------------------------------------------------------ characters

Digits == {"0", "1", "2", "3", "4", "5", "6", "7", "8", "9"}

Upper == {"A", "B", "C", "D", "E", "F", "G", "H", "I", "J", "K", "L", "M",
          "N", "O", "P", "Q", "R", "S", "T", "U", "V", "W", "X", "Y", "Z"}

Lower == {"a", "b", "c", "d", "e", "f", "g", "h", "i", "j", "k", "l", "m",
          "n", "o", "p", "q", "r", "s", "t", "u", "v", "w", "x", "y", "z"}

\* str.isalpha on one ASCII character, and the class [A-Za-z] of MD_REGEX
Letters == Upper \cup Lower

DigitValue(c) ==
    CASE c = "0" -> 0 [] c = "1" -> 1 [] c = "2" -> 2 [] c = "3" -> 3
      [] c = "4" -> 4 [] c = "5" -> 5 [] c = "6" -> 6 [] c = "7" -> 7
      [] c = "8" -> 8 [] c = "9" -> 9

\* int(x) of a non-empty run of decimal digits
RECURSIVE ParseInt(_)
ParseInt(ds) ==
    IF Len(ds) = 0 THEN 0
    ELSE 10 * ParseInt(SubSeq(ds, 1, Len(ds) - 1)) + DigitValue(ds[Len(ds)])

\* ------------------------------------------------------------- CIGAR parsing

\* the string enumerated by CIGAR2CODE, and the letter class of CIGAR_REGEX
CigarLetters == <<"M", "I", "D", "N", "S", "H", "P", "=", "X", "B">>

OpLetters == {CigarLetters[k] : k \in 1..Len(CigarLetters)}

\* the letters numbered from 1: enumerate("MIDNSHP=XB", 1)
CIGAR2CODE_shifted ==
    [y \in OpLetters |-> CHOOSE k \in 1..Len(CigarLetters) : CigarLetters[k] = y]

\* dict([y, x] for x, y in enumerate("MIDNSHP=XB"))
CIGAR2CODE ==
    [y \in OpLetters |->
        (CHOOSE k \in 1..Len(CigarLetters) : CigarLetters[k] = y) - 1]

\* the index just past the maximal run of digits that starts at i (\d+ is greedy)
RECURSIVE DigitRunEnd(_, _)
DigitRunEnd(s, i) ==
    IF i <= Len(s) /\ s[i] \in Digits THEN DigitRunEnd(s, i + 1) ELSE i

\* CIGAR_REGEX.findall(s) from position i: the non-overlapping matches of
\* (\d+)([MIDNSHP=XB]), leftmost first; a position where no match starts is
\* skipped.  A match can only start at i with the whole digit run, since a
\* shorter run is followed by a digit, not by a letter.
RECURSIVE CIGAR_REGEX_findall(_, _)
CIGAR_REGEX_findall(s, i) ==
    IF i > Len(s) THEN <<>>
    ELSE LET j == DigitRunEnd(s, i) IN
         IF j > i /\ j <= Len(s) /\ s[j] \in OpLetters
         THEN << <<SubSeq(s, i, j - 1), s[j]>> >> \o CIGAR_REGEX_findall(s, j + 1)
         ELSE CIGAR_REGEX_findall(s, i + 1)

\* CigarScorer.cigarstring_to_tuples
cigarstring_to_tuples(cigar) ==
    LET parts == CIGAR_REGEX_findall(cigar, 1) IN
    [k \in 1..Len(parts) |-> <<CIGAR2CODE[parts[k][2]], ParseInt(parts[k][1])>>]

\* ---------------------------------------------------------------- MD tags

RECURSIVE LetterRunEnd(_, _)
LetterRunEnd(s, i) ==
    IF i <= Len(s) /\ s[i] \in Letters THEN LetterRunEnd(s, i + 1) ELSE i

\* MD_REGEX.findall(s) from position i: ([A-Za-z]+|\^[A-Za-z])
RECURSIVE MD_REGEX_findall(_, _)
MD_REGEX_findall(s, i) ==
    IF i > Len(s) THEN <<>>
    ELSE IF s[i] \in Letters
         THEN LET j == LetterRunEnd(s, i) IN
              <<SubSeq(s, i, j - 1)>> \o MD_REGEX_findall(s, j)
    ELSE IF s[i] = "^" /\ i + 1 <= Len(s) /\ s[i + 1] \in Letters
         THEN <<SubSeq(s, i, i + 1)>> \o MD_REGEX_findall(s, i + 2)
    ELSE MD_REGEX_findall(s, i + 1)

\* the loop of md_mismatches over the tokens from the k-th on, counting every
\* token (the test on x[0] left out)
RECURSIVE md_count_every_token(_, _)
md_count_every_token(tokens, k) ==
    IF k > Len(tokens) THEN 0
    ELSE Len(tokens[k]) + md_count_every_token(tokens, k + 1)

\* the loop of md_mismatches over the tokens from the k-th on:
\*     if x[0].isalpha(): p += len(x)
RECURSIVE md_count(_, _)
md_count(tokens, k) ==
    IF k > Len(tokens) THEN 0
    ELSE (IF tokens[k][1] \in Letters THEN Len(tokens[k]) ELSE 0)
         + md_count(tokens, k + 1)

\* CigarScorer.md_mismatches
md_mismatches(md_tag) == md_count(MD_REGEX_findall(md_tag, 1), 1)

\* ------------------------------------------------------------------ scoring

\* the keys of _cigar_score
ScoreCodes == 0..9

\* _cigar_score with the sign of Diff (8) lost
cigar_score_diff_rewarded(code, x) ==
    CASE code = 0 -> x
      [] code = 1 -> -6 - x
      [] code = 2 -> -6 - x
      [] code \in 3..6 -> 0
      [] code = 7 -> x
      [] code = 8 -> x
      [] code = 9 -> 0

\* _cigar_score[code](x), for code among the keys
cigar_score(code, x) ==
    CASE code = 0 -> x
      [] code = 1 -> -6 - x
      [] code = 2 -> -6 - x
      [] code = 3 -> 0
      [] code = 4 -> 0
      [] code = 5 -> 0
      [] code = 6 -> 0
      [] code = 7 -> x
      [] code = 8 -> x * (-1)
      [] code = 9 -> 0

\* the loop of score_cigartuples from the k-th tuple on, with every unknown
\* code logged (the test on self.cig_warned left out)
RECURSIVE score_loop_warn_always(_, _, _)
score_loop_warn_always(ctups, k, st) ==
    IF k > Len(ctups) THEN st
    ELSE LET c == ctups[k] IN
         IF c[1] \in ScoreCodes
         THEN score_loop_warn_always(ctups, k + 1,
                  [st EXCEPT !.score = @ + cigar_score(c[1], c[2])])
         ELSE score_loop_warn_always(ctups, k + 1,
                  [st EXCEPT !.cig_warned = @ \cup {c[1]},
                             !.warn_log = Append(@, c[1])])

\* the loop of score_cigartuples from the k-th tuple on; st holds score,
\* self.cig_warned and what was passed to self.logger.warn.  A code that is no
\* key of _cigar_score raises KeyError inside the try, and the handler adds
\* nothing to the score.
RECURSIVE score_loop(_, _, _)
score_loop(ctups, k, st) ==
    IF k > Len(ctups) THEN st
    ELSE LET c == ctups[k] IN
         IF c[1] \in ScoreCodes
         THEN score_loop(ctups, k + 1,
                  [st EXCEPT !.score = @ + cigar_score(c[1], c[2])])
         ELSE IF c[1] \notin st.cig_warned
              THEN score_loop(ctups, k + 1,
                       [st EXCEPT !.cig_warned = @ \cup {c[1]},
                                  !.warn_log = Append(@, c[1])])
              ELSE score_loop(ctups, k + 1, st)

\* CigarScorer.score_cigartuples, as the state it leaves and the score it returns
score_cigartuples(warned, log, ctups) ==
    score_loop(ctups, 1, [score |-> 0, cig_warned |-> warned, warn_log |-> log])

\* get_clipped_offset reading ctups[0] for the end offset too
get_clipped_offset_first_only(ctups) ==
    IF Len(ctups) < 1 THEN <<0, 0>>
    ELSE <<IF ctups[1][1] = 4 THEN ctups[1][2] ELSE 0,
           IF ctups[1][1] = 4 THEN ctups[1][2] ELSE 0>>

\* CigarScorer.get_clipped_offset
get_clipped_offset(ctups) ==
    IF Len(ctups) < 1 THEN <<0, 0>>
    ELSE <<IF ctups[1][1] = 4 THEN ctups[1][2] ELSE 0,
           IF ctups[Len(ctups)][1] = 4 THEN ctups[Len(ctups)][2] ELSE 0>>

\* CigarScorer.get_aligned_length, from the k-th tuple on
RECURSIVE aligned_length_from(_, _)
aligned_length_from(ctups, k) ==
    IF k > Len(ctups) THEN 0
    ELSE LET c == ctups[k] IN
         (IF c[1] = 0 \/ (2 <= c[1] /\ c[1] <= 3) \/ (7 <= c[1] /\ c[1] <= 8)
          THEN c[2] ELSE 0) + aligned_length_from(ctups, k + 1)

get_aligned_length(ctups) == aligned_length_from(ctups, 1)

\* ------------------------------------------------------- float arithmetic

\* A float is modelled by its exact value: a fraction n/d in lowest terms, or
\* not-a-number, or infinity (a non-zero number divided by zero).  Rounding to
\* 53 bits is left out; every value below is non-negative or a difference.
RECURSIVE GCD(_, _)
GCD(a, b) == IF b = 0 THEN a ELSE GCD(b, a % b)

Abs(x) == IF x < 0 THEN -x ELSE x

Frac(n, d) ==
    LET g == GCD(Abs(n), d) IN [kind |-> "num", n |-> n \div g, d |-> d \div g]

FInt(i) == [kind |-> "num", n |-> i, d |-> 1]

NaN == [kind |-> "nan", n |-> 0, d |-> 1]

Inf == [kind |-> "inf", n |-> 0, d |-> 1]

IsZero(a) == a.kind = "num" /\ a.n = 0

FAdd(a, b) ==
    IF a.kind = "nan" \/ b.kind = "nan" THEN NaN
    ELSE IF a.kind = "inf" \/ b.kind = "inf" THEN Inf
    ELSE LET l == (a.d \div GCD(a.d, b.d)) * b.d IN
         Frac(a.n * (l \div a.d) + b.n * (l \div b.d), l)

FSub(a, b) ==
    IF a.kind = "nan" \/ b.kind = "nan" THEN NaN
    ELSE IF a.kind = "inf" /\ b.kind = "inf" THEN NaN
    ELSE IF a.kind = "inf" \/ b.kind = "inf" THEN Inf
    ELSE LET l == (a.d \div GCD(a.d, b.d)) * b.d IN
         Frac(a.n * (l \div a.d) - b.n * (l \div b.d), l)

FMul(a, b) ==
    IF a.kind = "nan" \/ b.kind = "nan" THEN NaN
    ELSE IF a.kind = "inf" \/ b.kind = "inf"
         THEN (IF IsZero(a) \/ IsZero(b) THEN NaN ELSE Inf)
    ELSE Frac(a.n * b.n, a.d * b.d)

FDiv(a, b) ==
    IF a.kind = "nan" \/ b.kind = "nan" THEN NaN
    ELSE IF a.kind = "inf" THEN (IF b.kind = "inf" THEN NaN ELSE Inf)
    ELSE IF b.kind = "inf" THEN FInt(0)
    ELSE IF b.n = 0 THEN (IF a.n = 0 THEN NaN ELSE Inf)
    ELSE IF b.n < 0 THEN Frac(-(a.n * b.d), a.d * (-b.n))
    ELSE Frac(a.n * b.d, a.d * b.n)

\* np.nan_to_num on one element (an infinity, which becomes the largest float,
\* is left as it is)
nan_to_num(x) == IF x.kind = "nan" THEN FInt(0) ELSE x

\* ---------------------------------------------------------- benchmark table

RECURSIVE Pow10(_)
Pow10(k) == IF k = 0 THEN 1 ELSE 10 * Pow10(k - 1)

RECURSIVE NumDigits(_)
NumDigits(n) == IF n < 10 THEN 1 ELSE 1 + NumDigits(n \div 10)

\* The number that pd.read_table reads back from "{:.<sig>g}".format(n), for an
\* integer n >= 0: n rounded to sig significant digits, a tie going to the even
\* digit (1005 -> "1e+03" -> 1000, 1235 -> "1.24e+03" -> 1240).
format_g_read(n, sig) ==
    IF NumDigits(n) <= sig THEN n
    ELSE LET unit == Pow10(NumDigits(n) - sig)
             q == n \div unit
             r == n % unit
         IN  IF 2 * r > unit \/ (2 * r = unit /\ q % 2 = 1)
             THEN (q + 1) * unit
             ELSE q * unit

\* sorted(S) for a set of numbers
RECURSIVE sorted(_)
sorted(S) ==
    IF S = {} THEN <<>>
    ELSE LET m == CHOOSE x \in S : \A y \in S : x <= y IN
         <<m>> \o sorted(S \ {m})

\* sum of col[k..Len(col)]: the running sums of the two reversed loops, reversed
RECURSIVE SuffixSum(_, _)
SuffixSum(col, k) ==
    IF k > Len(col) THEN 0 ELSE col[k] + SuffixSum(col, k + 1)

\* calculate_fbeta_score, for an integer beta
calculate_fbeta_score(precision, recall, beta) ==
    LET beta2 == beta * beta IN
    FDiv(FMul(FMul(FInt(1 + beta2), precision), recall),
         FAdd(FMul(FInt(beta2), precision), recall))

\* write_table's DataFrame for a non-empty mapping, as the sequence of its rows
write_table(cnts) ==
    LET order == sorted(DOMAIN cnts)
        n == Len(order)
        Threshold == [k \in 1..n |-> format_g_read(order[k], 6)]
        CONTAM == [k \in 1..n |-> format_g_read(cnts[order[k]].CONTAM, 3)]
        REF == [k \in 1..n |-> format_g_read(cnts[order[k]].REF, 3)]
        total_ref == SuffixSum(REF, 1)
        total_contam == SuffixSum(CONTAM, 1)
        TP == [k \in 1..n |-> SuffixSum(CONTAM, k)]
        FP == [k \in 1..n |-> SuffixSum(REF, k)]
        Sensitivity == [k \in 1..n |-> FDiv(FInt(TP[k]), FInt(total_contam))]
        Fallout == [k \in 1..n |-> FDiv(FInt(FP[k]), FInt(total_ref))]
        Precision == [k \in 1..n |-> FDiv(FInt(TP[k]), FInt(TP[k] + FP[k]))]
        F1 == [k \in 1..n |->
                  FDiv(FMul(FMul(FInt(2), Precision[k]), Sensitivity[k]),
                       FAdd(Precision[k], Sensitivity[k]))]
        F2 == [k \in 1..n |->
                  FDiv(FMul(FMul(FInt(1 + 2), Precision[k]), Sensitivity[k]),
                       FAdd(FMul(FInt(2), Precision[k]), Sensitivity[k]))]
    IN  [k \in 1..n |->
            [Threshold |-> Threshold[k], CONTAM |-> CONTAM[k], REF |-> REF[k],
             TP |-> TP[k], FP |-> FP[k], Sensitivity |-> Sensitivity[k],
             Fallout |-> Fallout[k], Precision |-> Precision[k],
             F1 |-> F1[k], F2 |-> F2[k]]]

\* sum(prec * sdiff) from the k-th element on, added left to right from 0
RECURSIVE SumProducts(_, _, _)
SumProducts(prec, sdiff, k) ==
    IF k = 0 THEN FInt(0)
    ELSE FAdd(SumProducts(prec, sdiff, k - 1), FMul(prec[k], sdiff[k]))

\* calculate_average_precision without np.nan_to_num
average_precision_nan_kept(df) ==
    LET n == Len(df)
        lowest_sens == df[n].Sensitivity
        rev == [k \in 1..n |-> df[n + 1 - k]]
        sdiff == [k \in 1..n |->
                     IF k = 1 THEN lowest_sens
                     ELSE FSub(rev[k].Sensitivity, rev[k - 1].Sensitivity)]
        prec == [k \in 1..n |-> rev[k].Precision]
    IN  SumProducts(prec, sdiff, n)

\* calculate_average_precision (the value returned; the logger is a sink)
calculate_average_precision(df) ==
    LET n == Len(df)
        lowest_sens == df[n].Sensitivity
        rev == [k \in 1..n |-> df[n + 1 - k]]
        sdiff == [k \in 1..n |->
                     IF k = 1 THEN lowest_sens
                     ELSE FSub(rev[k].Sensitivity, rev[k - 1].Sensitivity)]
        prec == [k \in 1..n |-> nan_to_num(rev[k].Precision)]
    IN  SumProducts(prec, sdiff, n)

\* ------------------------------------------------------------------- inputs

\* all sequences over S of length at most n
SeqsUpTo(S, n) == UNION {[1..m -> S] : m \in 0..n}

RawChars == {"0", "1", "M", "S", "a", "^"}

RawStrings == SeqsUpTo(RawChars, MaxLen)

DigitRuns == {<<"7">>, <<"1", "0">>, <<"0", "2">>}

Tokens == {d \o <<l>> : d \in DigitRuns, l \in OpLetters}

RECURSIVE TokenStringsOf(_)
TokenStringsOf(n) ==
    IF n = 0 THEN {<<>>}
    ELSE LET prev == TokenStringsOf(n - 1) IN
         prev \cup {p \o t : p \in prev, t \in Tokens}

TokenStrings == TokenStringsOf(MaxTokens)

InputStrings == RawStrings \cup TokenStrings

UnknownCodes == {10, 11}

ScoreTuples == SeqsUpTo(ScoreCodes \X {1, 2}, MaxOps)

ClipTuples == SeqsUpTo({0, 4, 5, 10} \X {1, 2}, MaxClipOps)

InputTuples == ScoreTuples \cup ClipTuples

ScorerTuples == SeqsUpTo({0, 2, 10, 11} \X {3}, MaxScorerOps)

Instances == {1, 2}

Thresholds == 0..MaxThreshold

\* every mapping from some of the thresholds to counts drawn from V
CountsOver(V) ==
    UNION {[T -> [REF : V, CONTAM : V]] : T \in SUBSET Thresholds}

\* counts of a few reads, and counts of more than a thousand
InputCounts == CountsOver({0, 1, 2}) \cup CountsOver({0, 1234})

\* the example strings of the specification
ExampleMd == <<"1", "0", "A", "5", "^", "A", "C", "3">>

ExampleCigar == <<"2", "I", "3", "M">>

\* ------------------------------------------------------------------ actions

\* no call made yet; every instance as CigarScorer.__init__ leaves it
Init ==
    /\ op = "init"
    /\ arg = <<>>
    /\ ret = <<>>
    /\ raised = "none"
    /\ counts = <<>>
    /\ cig_warned = [i \in Instances |-> {}]
    /\ warn_log = [i \in Instances |-> <<>>]
    /\ seen = [i \in Instances |-> {}]

ScorerUnchanged == UNCHANGED <<cig_warned, warn_log, seen>>

CigarstringToTuples(cigar) ==
    /\ op' = "cigarstring_to_tuples"
    /\ arg' = cigar
    /\ ret' = cigarstring_to_tuples(cigar)
    /\ raised' = "none"
    /\ UNCHANGED counts
    /\ ScorerUnchanged

MdMismatches(md_tag) ==
    /\ op' = "md_mismatches"
    /\ arg' = md_tag
    /\ ret' = md_mismatches(md_tag)
    /\ raised' = "none"
    /\ UNCHANGED counts
    /\ ScorerUnchanged

UnknownIn(ctups) ==
    {ctups[k][1] : k \in 1..Len(ctups)} \ ScoreCodes

ScoreCigartuples(self, ctups) ==
    LET st == score_cigartuples(cig_warned[self], warn_log[self], ctups) IN
    /\ op' = "score_cigartuples"
    /\ arg' = ctups
    /\ ret' = st.score
    /\ raised' = "none"
    /\ cig_warned' = [cig_warned EXCEPT ![self] = st.cig_warned]
    /\ warn_log' = [warn_log EXCEPT ![self] = st.warn_log]
    /\ seen' = [seen EXCEPT ![self] = @ \cup UnknownIn(ctups)]
    /\ UNCHANGED counts

ScoreCigarstring(self, cigar) ==
    LET cigartups == cigarstring_to_tuples(cigar)
        st == score_cigartuples(cig_warned[self], warn_log[self], cigartups)
    IN
    /\ op' = "score_cigarstring"
    /\ arg' = cigar
    /\ ret' = st.score
    /\ raised' = "none"
    /\ cig_warned' = [cig_warned EXCEPT ![self] = st.cig_warned]
    /\ warn_log' = [warn_log EXCEPT ![self] = st.warn_log]
    /\ seen' = [seen EXCEPT ![self] = @ \cup UnknownIn(cigartups)]
    /\ UNCHANGED counts

GetClippedOffset(ctups) ==
    /\ op' = "get_clipped_offset"
    /\ arg' = ctups
    /\ ret' = get_clipped_offset(ctups)
    /\ raised' = "none"
    /\ UNCHANGED counts
    /\ ScorerUnchanged

GetAlignedLength(ctups) ==
    /\ op' = "get_aligned_length"
    /\ arg' = ctups
    /\ ret' = get_aligned_length(ctups)
    /\ raised' = "none"
    /\ UNCHANGED counts
    /\ ScorerUnchanged

\* CigarScorer.__init__: a new instance takes the place of instance self
Construct(self) ==
    /\ op' = "__init__"
    /\ arg' = <<>>
    /\ ret' = <<>>
    /\ raised' = "none"
    /\ cig_warned' = [cig_warned EXCEPT ![self] = {}]
    /\ warn_log' = [warn_log EXCEPT ![self] = <<>>]
    /\ seen' = [seen EXCEPT ![self] = {}]
    /\ UNCHANGED counts

\* write_table(cnts, fh): unpacking the first key of an empty mapping raises
\* ValueError before anything is built
WriteTable(cnts) ==
    /\ op' = "write_table"
    /\ arg' = cnts
    /\ counts' = cnts
    /\ IF DOMAIN cnts = {}
       THEN ret' = <<>> /\ raised' = "ValueError"
       ELSE ret' = write_table(cnts) /\ raised' = "none"
    /\ ScorerUnchanged

\* calculate_average_precision(df, logger) on the table just built
CalculateAveragePrecision(df) ==
    /\ op' = "calculate_average_precision"
    /\ arg' = df
    /\ ret' = calculate_average_precision(df)
    /\ raised' = "none"
    /\ UNCHANGED counts
    /\ ScorerUnchanged

\* calculate_fbeta_score on the precision and the sensitivity of one row
CalculateFbetaScore(precision, recall, beta) ==
    /\ op' = "calculate_fbeta_score"
    /\ arg' = <<precision, recall, beta>>
    /\ ret' = calculate_fbeta_score(precision, recall, beta)
    /\ raised' = "none"
    /\ UNCHANGED counts
    /\ ScorerUnchanged

\* ----------------------------------------------------------- specifications

\* one call of a string function
DecodeCall ==
    /\ op = "init"
    /\ \E cigar \in InputStrings : CigarstringToTuples(cigar)

MdCall ==
    /\ op = "init"
    /\ \E md_tag \in RawStrings \cup {ExampleMd} : MdMismatches(md_tag)

NextCodec == DecodeCall \/ MdCall

SpecCodec == Init /\ [][NextCodec]_vars

\* one call on a new instance
ScoreTuplesCall ==
    /\ op = "init"
    /\ \E ctups \in InputTuples : ScoreCigartuples(1, ctups)

ScoreStringCall ==
    /\ op = "init"
    /\ \E cigar \in TokenStrings \cup {ExampleCigar} : ScoreCigarstring(1, cigar)

ClipCall ==
    /\ op = "init"
    /\ \E ctups \in InputTuples : GetClippedOffset(ctups)

AlignedLengthCall ==
    /\ op = "init"
    /\ \E ctups \in InputTuples : GetAlignedLength(ctups)

NextTuples == ScoreTuplesCall \/ ScoreStringCall \/ ClipCall \/ AlignedLengthCall

SpecTuples == Init /\ [][NextTuples]_vars

\* any sequence of constructions and scorings on the instances
ConstructAny == \E self \in Instances : Construct(self)

ScoreAny ==
    \E self \in Instances : \E ctups \in ScorerTuples : ScoreCigartuples(self, ctups)

NextScorer == ConstructAny \/ ScoreAny

SpecScorer == Init /\ [][NextScorer]_vars

\* the driver: build the table once, then summarise it
WriteTableCall ==
    /\ op = "init"
    /\ \E cnts \in InputCounts : WriteTable(cnts)

AveragePrecisionCall ==
    /\ op = "write_table"
    /\ raised = "none"
    /\ CalculateAveragePrecision(ret)

FbetaCall ==
    /\ op = "write_table"
    /\ raised = "none"
    /\ \E k \in 1..Len(ret) : \E beta \in {1, 2} :
           CalculateFbetaScore(ret[k].Precision, ret[k].Sensitivity, beta)

NextTable == WriteTableCall \/ AveragePrecisionCall \/ FbetaCall

SpecTable == Init /\ [][NextTable]_vars

\* ------------------------------------------------------------------- claims

\* the grammar (digits)(letter in MIDNSHP=XB) repeated, read as an automaton:
\* in_digits says that the characters since the last letter are a non-empty
\* run of digits
RECURSIVE TotalMatchFrom(_, _, _)
TotalMatchFrom(s, i, in_digits) ==
    IF i > Len(s) THEN ~in_digits
    ELSE IF s[i] \in Digits THEN TotalMatchFrom(s, i + 1, TRUE)
    ELSE IF s[i] \in OpLetters /\ in_digits THEN TotalMatchFrom(s, i + 1, FALSE)
    ELSE FALSE

IsTotalMatch(s) == TotalMatchFrom(s, 1, FALSE)

\* C1: for every input string, cigarstring_to_tuples either decomposes the
\* whole string into (digits)(letter) tokens with nothing left over, or raises
\* a format error and returns no partial list.
C1_TotalMatchOrError ==
    op = "cigarstring_to_tuples" => (IsTotalMatch(arg) \/ raised # "none")

\* the contribution of one operation as the scoring table of the
\* specification states it
TableContribution(code, L) ==
    IF code \in {0, 7} THEN L
    ELSE IF code \in {1, 2} THEN -(6 + L)
    ELSE IF code = 8 THEN -L
    ELSE 0

RECURSIVE TableScoreFrom(_, _)
TableScoreFrom(ops, k) ==
    IF k > Len(ops) THEN 0
    ELSE TableContribution(ops[k][1], ops[k][2]) + TableScoreFrom(ops, k + 1)

TableScore(ops) == TableScoreFrom(ops, 1)

AllKnown(ops) == \A k \in 1..Len(ops) : ops[k][1] \in 0..9

\* C2: for operations whose codes are all in 0..9, score_cigartuples returns
\* the sum of the per-kind contributions (+L for 0 and 7, -(6+L) for 1 and 2,
\* -L for 8, 0 for 3, 4, 5, 6 and 9), 0 for the empty list, and
\* score_cigarstring(s) is that sum over cigarstring_to_tuples(s).
C2_ScoreIsTableSum ==
    /\ (op = "score_cigartuples" /\ AllKnown(arg)) =>
           (raised = "none" /\ ret = TableScore(arg))
    /\ op = "score_cigarstring" =>
           (raised = "none" /\ ret = TableScore(cigarstring_to_tuples(arg)))

\* "2I3M" has been scored, and scored -5; so has a list led by a deletion
C2_Witness ==
    /\ op = "score_cigarstring"
    /\ arg = ExampleCigar
    /\ ret = -5

Count(log, c) == Cardinality({k \in 1..Len(log) : log[k] = c})

IsKnownOp(c) == c[1] \in 0..9

\* C3: on one instance every distinct unknown code that was met since the
\* construction has been warned about exactly once, however often it recurred
\* within a call or across calls, and no other code has; a new instance starts
\* over; every call returns, and returns the score of the list with the
\* unknown operations removed.
C3_WarnOncePerInstance ==
    /\ \A i \in Instances : \A c \in UnknownCodes :
           Count(warn_log[i], c) = (IF c \in seen[i] THEN 1 ELSE 0)
    /\ \A i \in Instances : \A k \in 1..Len(warn_log[i]) :
           warn_log[i][k] \in UnknownCodes
    /\ op = "score_cigartuples" =>
           (raised = "none" /\ ret = TableScore(SelectSeq(arg, IsKnownOp)))

\* code 10 came twice in the last call, the called instance has met 10 and 11
\* in some earlier call or this one, the other instance has warned about 10 too
C3_Witness ==
    /\ op = "score_cigartuples"
    /\ Len(arg) = 2 /\ arg[1][1] = 10 /\ arg[2][1] = 10
    /\ \E i \in Instances : \E j \in Instances :
           /\ i # j
           /\ seen[i] = {10, 11} /\ Len(warn_log[i]) = 2
           /\ warn_log[j] = <<10>>

RECURSIVE SumOver(_, _, _)
SumOver(cnts, T, label) ==
    IF T = {} THEN 0
    ELSE LET t == CHOOSE x \in T : TRUE IN
         cnts[t][label] + SumOver(cnts, T \ {t}, label)

\* C4: write_table returns one row per distinct threshold, in ascending
\* threshold order, whose REF and CONTAM are the input counts of the threshold
\* T, whose TP is the exact sum of the input CONTAM counts over the thresholds
\* >= T and whose FP is the exact sum of the input REF counts over them.
C4_ExactCumulativeSums ==
    (op = "write_table" /\ DOMAIN counts # {}) =>
        /\ raised = "none"
        /\ Len(ret) = Cardinality(DOMAIN counts)
        /\ \A k \in 1..Len(ret) : \A m \in 1..Len(ret) :
               k < m => ret[k].Threshold < ret[m].Threshold
        /\ \A k \in 1..Len(ret) :
               LET T == ret[k].Threshold
                   above == {t \in DOMAIN counts : t >= T}
               IN  /\ T \in DOMAIN counts
                   /\ ret[k].REF = counts[T].REF
                   /\ ret[k].CONTAM = counts[T].CONTAM
                   /\ ret[k].TP = SumOver(counts, above, "CONTAM")
                   /\ ret[k].FP = SumOver(counts, above, "REF")

\* (1 + beta^2) P S / (beta^2 P + S)
FBetaFormula(P, S, b2) ==
    FDiv(FMul(FMul(FInt(1 + b2), P), S), FAdd(FMul(FInt(b2), P), S))

\* C5: in every row of write_table, F2 = (1 + 2^2) P S / (2^2 P + S)
\* = calculate_fbeta_score(P, S, beta=2) and F1 = calculate_fbeta_score(P, S)
\* = 2 P S / (P + S), for the row's precision P and sensitivity S.
C5_F2IsFBetaAtTwo ==
    (op = "write_table" /\ raised = "none") =>
        \A k \in 1..Len(ret) :
            LET P == ret[k].Precision
                S == ret[k].Sensitivity
            IN  /\ ret[k].F2 = FBetaFormula(P, S, 4)
                /\ ret[k].F2 = calculate_fbeta_score(P, S, 2)
                /\ ret[k].F1 = calculate_fbeta_score(P, S, 1)
                /\ ret[k].F1 = FDiv(FMul(FMul(FInt(2), P), S), FAdd(P, S))

\* a CIGAR string of one or more tokens, each a decimal length without leading
\* zero (so not zero) followed by a letter of MIDNSHP=XB; at says where the
\* automaton is: "token" before a token, "length" inside its digits
RECURSIVE CanonicalFrom(_, _, _)
CanonicalFrom(s, i, at) ==
    IF i > Len(s) THEN at = "token"
    ELSE IF at = "token"
         THEN s[i] \in Digits \ {"0"} /\ CanonicalFrom(s, i + 1, "length")
    ELSE IF s[i] \in Digits THEN CanonicalFrom(s, i + 1, "length")
    ELSE s[i] \in OpLetters /\ CanonicalFrom(s, i + 1, "token")

IsCanonicalCigar(s) == Len(s) > 0 /\ CanonicalFrom(s, 1, "token")

DigitChars == <<"0", "1", "2", "3", "4", "5", "6", "7", "8", "9">>

\* the decimal numeral of n >= 0
RECURSIVE FormatInt(_)
FormatInt(n) ==
    IF n < 10 THEN <<DigitChars[n + 1]>>
    ELSE FormatInt(n \div 10) \o <<DigitChars[(n % 10) + 1]>>

\* length + letter per operation, the letter being the one at position code of
\* "MIDNSHP=XB"
RECURSIVE ReEncodeFrom(_, _)
ReEncodeFrom(ops, k) ==
    IF k > Len(ops) THEN <<>>
    ELSE FormatInt(ops[k][2]) \o <<CigarLetters[ops[k][1] + 1]>>
         \o ReEncodeFrom(ops, k + 1)

\* C6: for every valid CIGAR string with canonical lengths,
\* cigarstring_to_tuples returns operations with codes in 0..9 and positive
\* lengths whose re-encoding, length + letter at position code of
\* "MIDNSHP=XB" in order, is the string itself.
C6_RoundTrip ==
    (op = "cigarstring_to_tuples" /\ IsCanonicalCigar(arg)) =>
        /\ raised = "none"
        /\ \A k \in 1..Len(ret) : ret[k][1] \in 0..9 /\ ret[k][2] > 0
        /\ ReEncodeFrom(ret, 1) = arg

\* "10=7S" has been decoded, into Equal 10 then SoftClip 7
C6_Witness ==
    /\ op = "cigarstring_to_tuples"
    /\ arg = <<"1", "0", "=", "7", "S">>
    /\ ret = << <<7, 10>>, <<4, 7>> >>

\* C7: every operation of a list cigarstring_to_tuples returns has a length
\* > 0; a string with a zero-length token is rejected.
C7_NoZeroLength ==
    (op = "cigarstring_to_tuples" /\ raised = "none") =>
        \A k \in 1..Len(ret) : ret[k][2] > 0

\* C8: md_mismatches returns the summed lengths of the letter-run tokens of
\* the MD string: every letter counts 1, except a letter that directly follows
\* a caret (it is the caret's token, which is skipped); digits count nothing;
\* "10A5^AC3" gives 2.
C8_MdCountsLetterRuns ==
    op = "md_mismatches" =>
        /\ raised = "none"
        /\ ret = Cardinality({i \in 1..Len(arg) : arg[i] \in Letters})
                 - Cardinality({i \in 2..Len(arg) :
                                    arg[i] \in Letters /\ arg[i - 1] = "^"})
        /\ arg = ExampleMd => ret = 2
        /\ (\A i \in 1..Len(arg) : arg[i] \notin Letters) => ret = 0

\* "10A5^AC3" has been counted
C8_Witness ==
    /\ op = "md_mismatches"
    /\ arg = ExampleMd
    /\ ret = 2

\* C9: get_clipped_offset returns (lead, trail): lead the length of the first
\* operation if it is a SoftClip (code 4), else 0; trail the length of the last
\* operation if it is a SoftClip, else 0; (0, 0) for the empty list.
C9_ClipOffsets ==
    op = "get_clipped_offset" =>
        /\ raised = "none"
        /\ Len(arg) = 0 => ret = <<0, 0>>
        /\ Len(arg) > 0 =>
               /\ ret[1] = (IF Head(arg)[1] = 4 THEN Head(arg)[2] ELSE 0)
               /\ ret[2] = (IF arg[Len(arg)][1] = 4 THEN arg[Len(arg)][2] ELSE 0)
        /\ (Len(arg) = 1 /\ arg[1][1] = 4) => ret = <<arg[1][2], arg[1][2]>>

\* a leading soft clip of 2 and a trailing one of 1 around an interior soft
\* clip, which is not counted
C9_Witness ==
    /\ op = "get_clipped_offset"
    /\ arg = << <<4, 2>>, <<4, 1>>, <<4, 1>> >>
    /\ ret = <<2, 1>>

NoOpRow == [REF |-> 0, CONTAM |-> 0]

\* C10: for every mapping the table was built from and every threshold not in
\* it (below, between or above its thresholds), the average precision of the
\* table of the mapping extended with that threshold at REF = 0, CONTAM = 0 is
\* the average precision of the table of the mapping.
C10_NoOpRowInvariance ==
    op = "calculate_average_precision" =>
        \A t \in Thresholds \ DOMAIN counts :
            calculate_average_precision(
                write_table([x \in DOMAIN counts \cup {t} |->
                                 IF x = t THEN NoOpRow ELSE counts[x]])) = ret

\* the average precision of a table with a single row, at threshold 1, is a
\* number other than 0, and thresholds below and above it are free
C10_Witness ==
    /\ op = "calculate_average_precision"
    /\ DOMAIN counts = {1}
    /\ ret.kind = "num" /\ ret.n > 0 /\ ret.d > 1

====
